---- MODULE Spec2Model ----
(***************************************************************************)
(* clog: contextual logging on top of zap.  A context.Context carries      *)
(* three independently keyed entries (logger, level controller, error      *)
(* key); loggers are immutable values that share an atomic level cell and, *)
(* when callbacks are registered, a wrapping core that hands every record  *)
(* to the callbacks before delegating to zap's own core.                   *)
(***************************************************************************)
EXTENDS Integers, Sequences, FiniteSets, TLC

(* ------------------------------ bounds --------------------------------- *)

\* context values, context.Background() included, that a behaviour makes:
\* of Spec (one root), of SpecRoots, SpecCopy and SpecLevels (two roots), and of
\* SpecHooks and SpecChains (one root with callbacks and the contexts
\* derived from it)
MaxCtx == 3
MaxRootsCtx == 4
MaxCopyCtx == 4
MaxLevelCtx == 4
MaxHookCtx == 4
MaxChain == 5
MaxConcCtx == 3

\* context values and options of one call that a behaviour of SpecOptions makes
MaxOptCtx == 3
MaxOpts == 3

(* ----------------------------- severities ------------------------------ *)

\* zapcore level numbers behind the Level constants
DebugLevel == -1
InfoLevel == 0
WarnLevel == 1
ErrorLevel == 2
PanicLevel == 4
DefaultLevel == InfoLevel

Levels == {DebugLevel, InfoLevel, WarnLevel, ErrorLevel, PanicLevel}

DefaultErrorKey == "error"

\* ctx.Value(key) of an entry that is not there
Absent == "<absent>"
\* a nil error
NilErr == "<nil>"

(* ------------------------------- fields -------------------------------- *)

\* zap.Any(k, v) / zap.NamedError(k, err)
Field(k, v) == [key |-> k, val |-> v]

ZeroField == [key |-> "", val |-> ""]

FieldKeys == {"a", "k"}
FieldVals == {"v1", "v2"}

\* the sequences without repetition that enumerate the set S: the orders in
\* which `for k, v := range m` may visit the keys of a map
Orders(S) == {o \in [1..Cardinality(S) -> S] : \A i, j \in 1..Cardinality(S) : o[i] = o[j] => i = j}

\* zf = append(zf, zap.Any(k, v)) for k, v := range m, visited in order o
MapFields(m, o) == [i \in 1..Len(o) |-> Field(o[i], m[o[i]])]

(* ----------------------- Go slices and append --------------------------- *)

\* a slice header: backing array (0: nil), length, capacity
NilSlice == [arr |-> 0, len |-> 0, cap |-> 0]

\* the elements a slice shows of its backing array
SliceView(arrs, s) == [i \in 1..s.len |-> arrs[s.arr][i]]

\* capacity of the array append allocates when the old one is too small
\* (runtime growslice for short slices of 64-byte elements: the size classes
\* are exact up to 12 elements)
GrowCap(oldCap, needed) == IF needed > 2 * oldCap THEN needed ELSE 2 * oldCap

\* append(s, fs...): writes in place behind s.len when the capacity allows,
\* else copies into a fresh array.  fresh is TRUE when a new array was made.
GoAppend(arrs, s, fs) ==
    LET needed == s.len + Len(fs) IN
    IF needed <= s.cap
    THEN [slice |-> [arr |-> s.arr, len |-> needed, cap |-> s.cap],
          fresh |-> FALSE,
          arrs  |-> IF Len(fs) = 0 THEN arrs
                    ELSE [arrs EXCEPT ![s.arr] =
                            [i \in 1..s.cap |->
                                IF i > s.len /\ i <= needed THEN fs[i - s.len] ELSE @[i]]]]
    ELSE LET c == GrowCap(s.cap, needed)
             new == [i \in 1..c |->
                        IF i <= s.len THEN arrs[s.arr][i]
                        ELSE IF i <= needed THEN fs[i - s.len]
                        ELSE ZeroField]
         IN [slice |-> [arr |-> Len(arrs) + 1, len |-> needed, cap |-> c],
             fresh |-> TRUE,
             arrs  |-> Append(arrs, new)]

(* ------------------------------ callbacks ------------------------------ *)

Callbacks == {"cb1", "cb2", "cbPanic"}

\* the behaviour of a registered callback: cbPanic panics, the others return
CbPanics(cb) == cb = "cbPanic"

\* for i := range cbs { cbs[i](entry, fs) }: in slice order; a panic of a
\* callback unwinds the loop, so the later callbacks do not run
CallHooks(cbs, fs) ==
    LET bad == {i \in 1..Len(cbs) : CbPanics(cbs[i])}
        n   == IF bad = {} THEN Len(cbs) ELSE CHOOSE i \in bad : \A j \in bad : i <= j
    IN [calls    |-> [i \in 1..n |-> [cb |-> cbs[i], fields |-> fs]],
        panicked |-> bad # {}]

(* ------------------------------- cores --------------------------------- *)

\* the definitions of the wrapping core found in the source
CoreImpls == {"hooksLogger", "entryFieldCallbacks", "entryFieldCallbacksCtx"}

\* a *zap.Logger: the level cell that its core consults, the fields the zap
\* core has accumulated (its encoder is cloned on With), the wrapping core
\* ("ioCore": none), its callbacks and its accumulated-field slice
NoLogger == [lvl |-> 0, fields |-> <<>>, core |-> "ioCore", cbs |-> <<>>, hctx |-> NilSlice]

\* c.Enabled(entry.Level) of the embedded zap core against the atomic level
Core_Enabled(lvls, l, sev) == sev >= lvls[l.lvl]

\* Check: the core adds itself to the checked entry iff the level is enabled
Core_Check(lvls, l, sev) == Core_Enabled(lvls, l, sev)

\* c.Core.Write(entry, fields): the zap core persists its own accumulated
\* fields followed by the fields of the record
ioCore_Write(l, fields) == l.fields \o fields

\* c.Core.With(fields)
ioCore_With(l, fields) == [l EXCEPT !.fields = @ \o fields]

\* hooks.go Write: the callbacks get append(c.context, fields...)
hooksLogger_Write(arrs, l, fields) ==
    LET a == GoAppend(arrs, l.hctx, fields)
        h == CallHooks(l.cbs, SliceView(a.arrs, a.slice))
    IN [calls    |-> h.calls,
        panicked |-> h.panicked,
        written  |-> IF h.panicked THEN <<>> ELSE <<ioCore_Write(l, fields)>>,
        arrs     |-> IF a.fresh THEN arrs ELSE a.arrs]

\* hooks.go With
hooksLogger_With(arrs, l, fields) ==
    LET a == GoAppend(arrs, l.hctx, fields)
    IN [logger |-> [ioCore_With(l, fields) EXCEPT !.hctx = a.slice], arrs |-> a.arrs]

\* ctx_callback.go Write: the callbacks get the fields of the record only
entryFieldCallbacks_Write(arrs, l, fields) ==
    LET h == CallHooks(l.cbs, fields)
    IN [calls    |-> h.calls,
        panicked |-> h.panicked,
        written  |-> IF h.panicked THEN <<>> ELSE <<ioCore_Write(l, fields)>>,
        arrs     |-> arrs]

\* ctx_callback.go With
entryFieldCallbacks_With(arrs, l, fields) ==
    [logger |-> ioCore_With(l, fields), arrs |-> arrs]

\* the later entryFieldCallbacks (with a context slice): Write
entryFieldCallbacksCtx_Write(arrs, l, fields) ==
    LET allFields == GoAppend(arrs, l.hctx, fields)
        h == CallHooks(l.cbs, SliceView(allFields.arrs, allFields.slice))
    IN [calls    |-> h.calls,
        panicked |-> h.panicked,
        written  |-> IF h.panicked THEN <<>> ELSE <<ioCore_Write(l, fields)>>,
        arrs     |-> IF allFields.fresh THEN arrs ELSE allFields.arrs]

\* the later entryFieldCallbacks: With
entryFieldCallbacksCtx_With(arrs, l, fields) ==
    LET ctx == GoAppend(arrs, l.hctx, fields)
    IN [logger |-> [ioCore_With(l, fields) EXCEPT !.hctx = ctx.slice], arrs |-> ctx.arrs]

\* core.Write of whichever core the logger holds
Core_Write(arrs, l, fields) ==
    CASE l.core = "hooksLogger" -> hooksLogger_Write(arrs, l, fields)
      [] l.core = "entryFieldCallbacks" -> entryFieldCallbacks_Write(arrs, l, fields)
      [] l.core = "entryFieldCallbacksCtx" -> entryFieldCallbacksCtx_Write(arrs, l, fields)
      [] OTHER -> [calls |-> <<>>, panicked |-> FALSE,
                   written |-> <<ioCore_Write(l, fields)>>, arrs |-> arrs]

\* logger.With(fields...): zap returns the logger itself for no fields, else
\* a clone whose core is core.With(fields)
Logger_With(arrs, l, fields) ==
    IF Len(fields) = 0 THEN [logger |-> l, arrs |-> arrs]
    ELSE CASE l.core = "hooksLogger" -> hooksLogger_With(arrs, l, fields)
           [] l.core = "entryFieldCallbacks" -> entryFieldCallbacks_With(arrs, l, fields)
           [] l.core = "entryFieldCallbacksCtx" -> entryFieldCallbacksCtx_With(arrs, l, fields)
           [] OTHER -> [logger |-> ioCore_With(l, fields), arrs |-> arrs]

\* logger.Level(): the level of the atomic cell behind the core
Logger_Level(lvls, l) == lvls[l.lvl]

\* Level_Enabled with the comparison off by one
Level_EnabledStrict(level, sev) == sev > level

\* zapcore.Level.Enabled
Level_Enabled(level, sev) == sev >= level

(* --------------------------- per-call options --------------------------- *)

WithError(err) == [t |-> "WithError", err |-> err]
WithField(key, value) == [t |-> "WithField", key |-> key, val |-> value]
WithFields(fields) == [t |-> "WithFields", fields |-> fields]

\* o := &options{}
NoOptions == [err |-> NilErr, fields |-> <<>>]

\* opts[i](o): the closure of one option applied to the option record
\* options of which the first one naming a key wins
ApplyOptionKeepFirst(o, opt) ==
    CASE opt.t = "WithError" -> [o EXCEPT !.err = opt.err]
      [] opt.t = "WithField" ->
            [o EXCEPT !.fields = [k \in DOMAIN @ \cup {opt.key} |->
                                    IF k \in DOMAIN @ THEN @[k] ELSE opt.val]]
      [] opt.t = "WithFields" ->
            [o EXCEPT !.fields = [k \in DOMAIN @ \cup DOMAIN opt.fields |->
                                    IF k \in DOMAIN @ THEN @[k] ELSE opt.fields[k]]]

ApplyOption(o, opt) ==
    CASE opt.t = "WithError" -> [o EXCEPT !.err = opt.err]
      [] opt.t = "WithField" ->
            [o EXCEPT !.fields = [k \in DOMAIN @ \cup {opt.key} |->
                                    IF k = opt.key THEN opt.val ELSE @[k]]]
      [] opt.t = "WithFields" ->
            [o EXCEPT !.fields = [k \in DOMAIN @ \cup DOMAIN opt.fields |->
                                    IF k \in DOMAIN opt.fields THEN opt.fields[k] ELSE @[k]]]

\* for i := range opts { opts[i](o) }
RECURSIVE ApplyOptions(_, _)
ApplyOptions(o, opts) ==
    IF Len(opts) = 0 THEN o ELSE ApplyOptions(ApplyOption(o, Head(opts)), Tail(opts))

\* the key of the error field: the context's error-key entry, else the default
ErrKeyOf(c) == IF c.errKey # Absent THEN c.errKey ELSE DefaultErrorKey

\* getFields(ctx, opts), the map visited in order
getFields(c, opts, order) ==
    LET o == ApplyOptions(NoOptions, opts)
        zf == MapFields(o.fields, order)
    IN IF o.err # NilErr THEN Append(zf, Field(ErrKeyOf(c), o.err)) ELSE zf

(* --------------------------- context options ---------------------------- *)

WithLevel(level) == [t |-> "WithLevel", level |-> level]
WithErrorKey(key) == [t |-> "WithErrorKey", key |-> key]
WithEntryFieldCallbacks(cbs) == [t |-> "WithEntryFieldCallbacks", cbs |-> cbs]

\* o := &contextOptions{...}: the defaults
DefaultContextOptions ==
    [level |-> DefaultLevel, errorKey |-> DefaultErrorKey, entryFieldCallbacks |-> <<>>]

ApplyContextOption(o, opt) ==
    CASE opt.t = "WithLevel" -> [o EXCEPT !.level = opt.level]
      [] opt.t = "WithErrorKey" -> [o EXCEPT !.errorKey = opt.key]
      [] opt.t = "WithEntryFieldCallbacks" ->
            [o EXCEPT !.entryFieldCallbacks = @ \o opt.cbs]

RECURSIVE ApplyContextOptions(_, _)
ApplyContextOptions(o, opts) ==
    IF Len(opts) = 0 THEN o
    ELSE ApplyContextOptions(ApplyContextOption(o, Head(opts)), Tail(opts))

(* -------------------------------- state --------------------------------- *)

\* ctxs:   the context values made so far; ctxs[1] is context.Background()
\* levels: the atomic level cells, one per Context() call
\* arrays: the backing arrays of the accumulated-field slices
\* last:   the last call and what it did
\* inflight: for each goroutine, the emit call it is in and how far that call
\*         has got (the calls of SpecConc; the other specifications run each
\*         call in one step)
VARIABLES ctxs, levels, arrays, last, inflight

vars == <<ctxs, levels, arrays, last, inflight>>

\* a context that carries none of the three entries.  via, parent, lineage,
\* copyOf and added record how a context value came about: the function that
\* returned it, the context it wraps, the root whose ContextWithField(s)
\* chain it belongs to (0: none), the source of a CopyContext, and the fields
\* its derivation added.
PlainContext ==
    [hasLogger |-> FALSE, logger |-> NoLogger, level |-> 0, errKey |-> Absent,
     via |-> "Background", parent |-> 0, lineage |-> 0, copyOf |-> 0, added |-> <<>>]

NoCall ==
    [op |-> "none", ctx |-> 0, arg |-> 0, res |-> 0, sev |-> 0, nopts |-> 0, opts |-> <<>>,
     found |-> FALSE, enabled |-> FALSE, evaluated |-> 0, fields |-> <<>>,
     calls |-> <<>>, written |-> <<>>, panic |-> "none"]

\* the goroutines that call the emit functions concurrently
Goroutines == {"g1", "g2"}

\* a goroutine outside an emit call.  reads are the levels its call has
\* loaded so far, writes the records it has handed to the backend.
Idle == [pc |-> "idle", ctx |-> 0, sev |-> 0, reads |-> <<>>, writes |-> 0]

Init ==
    /\ ctxs = <<PlainContext>>
    /\ levels = <<>>
    /\ arrays = <<>>
    /\ last = NoCall
    /\ inflight = [g \in Goroutines |-> Idle]

(* ----------------------------- the facade ------------------------------- *)

\* <Severity>Enabled(ctx)
SeverityEnabled(lvls, c, sev) ==
    IF ~c.hasLogger THEN FALSE
    ELSE Level_Enabled(Logger_Level(lvls, c.logger), sev)

\* a logger whose Panic unwinds before the entry is written
Logger_LogPanicFirst(arrs, lvls, l, sev, fields) ==
    LET w == IF Core_Check(lvls, l, sev) /\ sev # PanicLevel THEN Core_Write(arrs, l, fields)
             ELSE [calls |-> <<>>, panicked |-> FALSE, written |-> <<>>, arrs |-> arrs]
    IN [calls   |-> w.calls,
        written |-> w.written,
        panic   |-> IF w.panicked THEN "callback"
                    ELSE IF sev = PanicLevel THEN "level" ELSE "none",
        arrs    |-> w.arrs]

\* logger.<Severity>(msg, fields...): zap checks the core, writes the entry
\* to the cores that accepted it, and panics after the write at PanicLevel
Logger_Log(arrs, lvls, l, sev, fields) ==
    LET w == IF Core_Check(lvls, l, sev) THEN Core_Write(arrs, l, fields)
             ELSE [calls |-> <<>>, panicked |-> FALSE, written |-> <<>>, arrs |-> arrs]
    IN [calls   |-> w.calls,
        written |-> w.written,
        panic   |-> IF w.panicked THEN "callback"
                    ELSE IF sev = PanicLevel THEN "level" ELSE "none",
        arrs    |-> w.arrs]

\* an emit function that builds the fields before it checks the level
EmitEager(arrs, lvls, c, sev, opts, order) ==
    IF ~c.hasLogger
    THEN [found |-> FALSE, enabled |-> FALSE, evaluated |-> 0, fields |-> <<>>,
          calls |-> <<>>, written |-> <<>>, panic |-> "none", arrs |-> arrs]
    ELSE LET zf == getFields(c, opts, order)
             on == Level_Enabled(Logger_Level(lvls, c.logger), sev)
             r  == Logger_Log(arrs, lvls, c.logger, sev, zf)
         IN [found |-> TRUE, enabled |-> on, evaluated |-> Len(opts), fields |-> zf,
             calls |-> IF on THEN r.calls ELSE <<>>,
             written |-> IF on THEN r.written ELSE <<>>,
             panic |-> IF on THEN r.panic ELSE "none",
             arrs |-> IF on THEN r.arrs ELSE arrs]

\* Debug / Info / Warn / Error / Panic (ctx, msg, opts...)
Emit(arrs, lvls, c, sev, opts, order) ==
    IF ~c.hasLogger
    THEN [found |-> FALSE, enabled |-> FALSE, evaluated |-> 0, fields |-> <<>>,
          calls |-> <<>>, written |-> <<>>, panic |-> "none", arrs |-> arrs]
    ELSE IF ~Level_Enabled(Logger_Level(lvls, c.logger), sev)
    THEN [found |-> TRUE, enabled |-> FALSE, evaluated |-> 0, fields |-> <<>>,
          calls |-> <<>>, written |-> <<>>, panic |-> "none", arrs |-> arrs]
    ELSE LET zf == getFields(c, opts, order)
             r  == Logger_Log(arrs, lvls, c.logger, sev, zf)
         IN [found |-> TRUE, enabled |-> TRUE, evaluated |-> Len(opts), fields |-> zf,
             calls |-> r.calls, written |-> r.written, panic |-> r.panic, arrs |-> r.arrs]

(* ------------------------------ operations ------------------------------ *)

\* the wrapping cores of the loggers made so far
CoresInUse == {ctxs[i].logger.core : i \in 1..Len(ctxs)} \ {"ioCore"}

\* Context storing under levelKey a level cell of its own instead of the cell
\* the logger was built with
ContextDetachedLevel(parent, opts, wrap) ==
    LET o == ApplyContextOptions(DefaultContextOptions, opts)
        level == Len(levels) + 1
        logger == [lvl |-> level + 1, fields |-> <<>>,
                   core |-> IF Len(o.entryFieldCallbacks) > 0 THEN wrap ELSE "ioCore",
                   cbs |-> o.entryFieldCallbacks, hctx |-> NilSlice]
    IN /\ levels' = levels \o <<o.level, o.level>>
       /\ ctxs' = Append(ctxs,
             [hasLogger |-> TRUE, logger |-> logger, level |-> level,
              errKey |-> o.errorKey, via |-> "Context",
              parent |-> IF parent = 0 THEN 1 ELSE parent,
              lineage |-> level, copyOf |-> 0, added |-> <<>>])
       /\ last' = [NoCall EXCEPT !.op = "Context", !.ctx = parent, !.res = Len(ctxs) + 1]
       /\ UNCHANGED <<arrays, inflight>>

\* Context building the logger on the level cell that the parent carries
ContextInherit(parent, opts, wrap) ==
    LET o == ApplyContextOptions(DefaultContextOptions, opts)
        level == Len(levels) + 1
        cell == IF parent # 0 /\ ctxs[parent].level # 0 THEN ctxs[parent].level ELSE level
        logger == [lvl |-> cell, fields |-> <<>>,
                   core |-> IF Len(o.entryFieldCallbacks) > 0 THEN wrap ELSE "ioCore",
                   cbs |-> o.entryFieldCallbacks, hctx |-> NilSlice]
    IN /\ CoresInUse \subseteq {wrap}
       /\ levels' = Append(levels, o.level)
       /\ ctxs' = Append(ctxs,
             [hasLogger |-> TRUE, logger |-> logger, level |-> cell,
              errKey |-> o.errorKey, via |-> "Context",
              parent |-> IF parent = 0 THEN 1 ELSE parent,
              lineage |-> level, copyOf |-> 0, added |-> <<>>])
       /\ last' = [NoCall EXCEPT !.op = "Context", !.ctx = parent, !.res = Len(ctxs) + 1]
       /\ UNCHANGED <<arrays, inflight>>

\* Context(parent, opts...); parent 0 is nil, replaced by context.Background().
\* wrap names the definition of the wrapping core that the build contains: one
\* program has one.
Context(parent, opts, wrap) ==
    LET o == ApplyContextOptions(DefaultContextOptions, opts)
        level == Len(levels) + 1
        logger == [lvl |-> level, fields |-> <<>>,
                   core |-> IF Len(o.entryFieldCallbacks) > 0 THEN wrap ELSE "ioCore",
                   cbs |-> o.entryFieldCallbacks, hctx |-> NilSlice]
    IN /\ CoresInUse \subseteq {wrap}
       /\ levels' = Append(levels, o.level)
       /\ ctxs' = Append(ctxs,
             [hasLogger |-> TRUE, logger |-> logger, level |-> level,
              errKey |-> o.errorKey, via |-> "Context",
              parent |-> IF parent = 0 THEN 1 ELSE parent,
              lineage |-> level, copyOf |-> 0, added |-> <<>>])
       /\ last' = [NoCall EXCEPT !.op = "Context", !.ctx = parent, !.res = Len(ctxs) + 1]
       /\ UNCHANGED <<arrays, inflight>>

\* a derivation that stores the derived logger in the parent as well
WithLoggerInPlace(op, parent, zf) ==
    IF ~ctxs[parent].hasLogger
    THEN /\ last' = [NoCall EXCEPT !.op = op, !.ctx = parent, !.res = parent]
         /\ UNCHANGED <<ctxs, levels, arrays, inflight>>
    ELSE /\ LET w == Logger_With(arrays, ctxs[parent].logger, zf)
            IN /\ ctxs' = Append([ctxs EXCEPT ![parent].logger = w.logger],
                     [ctxs[parent] EXCEPT !.logger = w.logger, !.via = op,
                                          !.parent = parent, !.copyOf = 0, !.added = zf])
               /\ arrays' = w.arrs
         /\ last' = [NoCall EXCEPT !.op = op, !.ctx = parent, !.res = Len(ctxs) + 1]
         /\ UNCHANGED <<levels, inflight>>

\* the body shared by ContextWithField and ContextWithFields: the logger
\* lookup, logger.With(zf...) and context.WithValue(parent, loggerKey, logger)
WithLogger(op, parent, zf) ==
    IF ~ctxs[parent].hasLogger
    THEN /\ last' = [NoCall EXCEPT !.op = op, !.ctx = parent, !.res = parent]
         /\ UNCHANGED <<ctxs, levels, arrays, inflight>>
    ELSE /\ LET w == Logger_With(arrays, ctxs[parent].logger, zf)
            IN /\ ctxs' = Append(ctxs,
                     [ctxs[parent] EXCEPT !.logger = w.logger, !.via = op,
                                          !.parent = parent, !.copyOf = 0, !.added = zf])
               /\ arrays' = w.arrs
         /\ last' = [NoCall EXCEPT !.op = op, !.ctx = parent, !.res = Len(ctxs) + 1]
         /\ UNCHANGED <<levels, inflight>>

\* ContextWithField(parent, k, v)
ContextWithField(parent, k, v) == WithLogger("ContextWithField", parent, <<Field(k, v)>>)

\* ContextWithFields(parent, fields), the map visited in order
ContextWithFields(parent, fields, order) ==
    WithLogger("ContextWithFields", parent, MapFields(fields, order))

\* CopyContext without the check that from carries a logger
CopyContextUnchecked(to, from) ==
    /\ ctxs' = Append(ctxs,
          [ctxs[to] EXCEPT !.hasLogger = ctxs[from].hasLogger, !.logger = ctxs[from].logger,
                           !.via = "CopyContext", !.parent = to, !.lineage = 0,
                           !.copyOf = from, !.added = <<>>])
    /\ last' = [NoCall EXCEPT !.op = "CopyContext", !.ctx = to, !.arg = from,
                              !.res = Len(ctxs) + 1]
    /\ UNCHANGED <<levels, arrays, inflight>>

\* CopyContext that leaves the logger of a target that has one
CopyContextKeepLogger(to, from) ==
    IF ~ctxs[from].hasLogger
    THEN /\ last' = [NoCall EXCEPT !.op = "CopyContext", !.ctx = to, !.arg = from, !.res = to]
         /\ UNCHANGED <<ctxs, levels, arrays, inflight>>
    ELSE /\ ctxs' = Append(ctxs,
               [ctxs[to] EXCEPT !.hasLogger = TRUE,
                                !.logger = IF ctxs[to].hasLogger THEN ctxs[to].logger
                                           ELSE ctxs[from].logger,
                                !.via = "CopyContext", !.parent = to, !.lineage = 0,
                                !.copyOf = from, !.added = <<>>])
         /\ last' = [NoCall EXCEPT !.op = "CopyContext", !.ctx = to, !.arg = from,
                                   !.res = Len(ctxs) + 1]
         /\ UNCHANGED <<levels, arrays, inflight>>

\* CopyContext that copies the level and the error key of from as well
CopyContextAll(to, from) ==
    IF ~ctxs[from].hasLogger
    THEN /\ last' = [NoCall EXCEPT !.op = "CopyContext", !.ctx = to, !.arg = from, !.res = to]
         /\ UNCHANGED <<ctxs, levels, arrays, inflight>>
    ELSE /\ ctxs' = Append(ctxs,
               [ctxs[to] EXCEPT !.hasLogger = TRUE, !.logger = ctxs[from].logger,
                                !.level = ctxs[from].level, !.errKey = ctxs[from].errKey,
                                !.via = "CopyContext", !.parent = to, !.lineage = 0,
                                !.copyOf = from, !.added = <<>>])
         /\ last' = [NoCall EXCEPT !.op = "CopyContext", !.ctx = to, !.arg = from,
                                   !.res = Len(ctxs) + 1]
         /\ UNCHANGED <<levels, arrays, inflight>>

\* CopyContext(to, from)
CopyContext(to, from) ==
    IF ~ctxs[from].hasLogger
    THEN /\ last' = [NoCall EXCEPT !.op = "CopyContext", !.ctx = to, !.arg = from, !.res = to]
         /\ UNCHANGED <<ctxs, levels, arrays, inflight>>
    ELSE /\ ctxs' = Append(ctxs,
               [ctxs[to] EXCEPT !.hasLogger = TRUE, !.logger = ctxs[from].logger,
                                !.via = "CopyContext", !.parent = to, !.lineage = 0,
                                !.copyOf = from, !.added = <<>>])
         /\ last' = [NoCall EXCEPT !.op = "CopyContext", !.ctx = to, !.arg = from,
                                   !.res = Len(ctxs) + 1]
         /\ UNCHANGED <<levels, arrays, inflight>>

\* SetLevel storing a level that no call passed
SetLevelTorn(c, level) ==
    /\ IF ctxs[c].level = 0
       THEN UNCHANGED levels
       ELSE levels' = [levels EXCEPT ![ctxs[c].level] = level + 1]
    /\ last' = [NoCall EXCEPT !.op = "SetLevel", !.ctx = c, !.arg = level]
    /\ UNCHANGED <<ctxs, arrays, inflight>>

\* SetLevel on one level for the whole program
SetLevelGlobal(c, level) ==
    /\ IF ctxs[c].level = 0
       THEN UNCHANGED levels
       ELSE levels' = [levels EXCEPT ![1] = level]
    /\ last' = [NoCall EXCEPT !.op = "SetLevel", !.ctx = c, !.arg = level]
    /\ UNCHANGED <<ctxs, arrays, inflight>>

\* SetLevel(ctx, level)
SetLevel(c, level) ==
    /\ IF ctxs[c].level = 0
       THEN UNCHANGED levels
       ELSE levels' = [levels EXCEPT ![ctxs[c].level] = level]
    /\ last' = [NoCall EXCEPT !.op = "SetLevel", !.ctx = c, !.arg = level]
    /\ UNCHANGED <<ctxs, arrays, inflight>>

\* a call of the emit function of severity sev
Log(c, sev, opts, order) ==
    LET r == Emit(arrays, levels, ctxs[c], sev, opts, order)
    IN /\ last' = [NoCall EXCEPT !.op = "Emit", !.ctx = c, !.sev = sev,
                      !.nopts = Len(opts), !.opts = opts, !.found = r.found, !.enabled = r.enabled,
                      !.evaluated = r.evaluated, !.fields = r.fields, !.calls = r.calls,
                      !.written = r.written, !.panic = r.panic]
       /\ arrays' = r.arrs
       /\ UNCHANGED <<ctxs, levels, inflight>>

(* ------------------- an emit call, one load at a time ------------------- *)

\* Info(ctx, msg) up to its own level check: the logger lookup and
\* logger.Level().Enabled(sev), an atomic load
EmitCall(g, c, sev) ==
    /\ inflight[g].pc = "idle"
    /\ inflight' = [inflight EXCEPT ![g] =
          IF ~ctxs[c].hasLogger
          THEN [Idle EXCEPT !.pc = "returned", !.ctx = c, !.sev = sev]
          ELSE LET t == Logger_Level(levels, ctxs[c].logger)
               IN [pc |-> IF Level_Enabled(t, sev) THEN "logger" ELSE "returned",
                   ctx |-> c, sev |-> sev, reads |-> <<t>>, writes |-> 0]]
    /\ UNCHANGED <<ctxs, levels, arrays, last>>

\* logger.Info(msg, getFields(ctx, opts)...): zap's Logger.check asks
\* core.Enabled(sev), a second load
ZapCheck(g) ==
    LET e == inflight[g]
        l == ctxs[e.ctx].logger
    IN /\ e.pc = "logger"
       /\ inflight' = [inflight EXCEPT ![g] =
             [e EXCEPT !.reads = Append(@, Logger_Level(levels, l)),
                       !.pc = IF Core_Enabled(levels, l, e.sev) THEN "check" ELSE "returned"]]
       /\ UNCHANGED <<ctxs, levels, arrays, last>>

\* core.Check(entry, ce): c.Enabled(entry.Level), a third load, decides
\* whether the core is added to the checked entry
CoreCheck(g) ==
    LET e == inflight[g]
        l == ctxs[e.ctx].logger
    IN /\ e.pc = "check"
       /\ inflight' = [inflight EXCEPT ![g] =
             [e EXCEPT !.reads = Append(@, Logger_Level(levels, l)),
                       !.pc = IF Core_Check(levels, l, e.sev) THEN "write" ELSE "returned"]]
       /\ UNCHANGED <<ctxs, levels, arrays, last>>

\* ce.Write(fields...): core.Write of the cores that were added
CoreWrite(g) ==
    LET e == inflight[g]
        w == Core_Write(arrays, ctxs[e.ctx].logger, <<>>)
    IN /\ e.pc = "write"
       /\ inflight' = [inflight EXCEPT ![g] =
             [e EXCEPT !.writes = @ + Len(w.written), !.pc = "returned"]]
       /\ arrays' = w.arrs
       /\ UNCHANGED <<ctxs, levels, last>>

\* the emit function returns
EmitReturn(g) ==
    /\ inflight[g].pc = "returned"
    /\ inflight' = [inflight EXCEPT ![g] = Idle]
    /\ UNCHANGED <<ctxs, levels, arrays, last>>

(* -------------------------------- inputs -------------------------------- *)

OptionOrders(opts) == Orders(DOMAIN ApplyOptions(NoOptions, opts).fields)

\* the context values made so far
Ctxs == 1..Len(ctxs)

(* ------------- Spec: the facade and the level of one root ---------------- *)

ContextOptionLists ==
    {<<WithLevel(l)>> : l \in Levels}
        \cup {<<>>, <<WithLevel(DebugLevel), WithLevel(ErrorLevel)>>,
              <<WithEntryFieldCallbacks(<<"cb1">>)>>}

FieldMaps == {<<>>, [k \in {"a"} |-> "v1"]}

OptionLists == {<<>>, <<WithField("k", "v1"), WithError("boom")>>}

Next ==
    \/ /\ levels = <<>>
       /\ \E p \in {0} \cup Ctxs, o \in ContextOptionLists : Context(p, o, "hooksLogger")
    \/ \E p \in Ctxs, k \in {"k"} :
            /\ ctxs[p].hasLogger => Len(ctxs) < MaxCtx
            /\ ContextWithField(p, k, "v1")
    \/ \E p \in Ctxs, m \in FieldMaps :
            /\ ctxs[p].hasLogger => Len(ctxs) < MaxCtx
            /\ \E o \in Orders(DOMAIN m) : ContextWithFields(p, m, o)
    \/ \E to \in Ctxs, from \in Ctxs :
            /\ ctxs[from].hasLogger => Len(ctxs) < MaxCtx
            /\ CopyContext(to, from)
    \/ \E c \in Ctxs, l \in Levels : SetLevel(c, l)
    \/ \E c \in Ctxs, sev \in Levels, opts \in OptionLists :
            \E o \in OptionOrders(opts) : Log(c, sev, opts, o)

Spec == Init /\ [][Next]_vars

(* ------------------------- SpecRoots: two roots -------------------------- *)

RootOptionLists ==
    {<<>>, <<WithLevel(WarnLevel), WithErrorKey("err"), WithEntryFieldCallbacks(<<"cb1">>)>>}

RootLevels == {ErrorLevel}

RootSeverities == {InfoLevel, ErrorLevel}

RootOptionLists2 == {<<>>, <<WithError("boom")>>}

NextRoots ==
    \/ /\ Len(ctxs) < MaxRootsCtx
       /\ Len(levels) < 2
       /\ \E p \in {0} \cup Ctxs, o \in RootOptionLists, w \in CoreImpls : Context(p, o, w)
    \/ \E p \in Ctxs :
            /\ ctxs[p].hasLogger => Len(ctxs) < MaxRootsCtx
            /\ ContextWithField(p, "k", "v1")
    \/ \E c \in Ctxs, l \in RootLevels : SetLevel(c, l)
    \/ \E c \in Ctxs, sev \in RootSeverities, opts \in RootOptionLists2 :
            \E o \in OptionOrders(opts) : Log(c, sev, opts, o)

SpecRoots == Init /\ [][NextRoots]_vars

(* ------------------- SpecCopy: CopyContext between roots ----------------- *)

NextCopy ==
    \/ /\ Len(ctxs) < MaxCopyCtx
       /\ Len(levels) < 2
       /\ \E p \in {0} \cup Ctxs, o \in RootOptionLists, w \in CoreImpls : Context(p, o, w)
    \/ \E p \in Ctxs :
            /\ ctxs[p].hasLogger => Len(ctxs) < MaxCopyCtx
            /\ ContextWithField(p, "k", "v1")
    \/ \E to \in Ctxs, from \in Ctxs :
            /\ ctxs[from].hasLogger => Len(ctxs) < MaxCopyCtx
            /\ CopyContext(to, from)
    \/ \E c \in Ctxs, opts \in RootOptionLists2 :
            \E o \in OptionOrders(opts) : Log(c, ErrorLevel, opts, o)

SpecCopy == Init /\ [][NextCopy]_vars

(* ------------- SpecLevels: CopyContext and the level entry --------------- *)

LevelOptionLists == {<<WithLevel(WarnLevel)>>, <<WithErrorKey("err")>>}

SetLevels == {ErrorLevel}

NextLevels ==
    \/ /\ Len(ctxs) < MaxLevelCtx
       /\ Len(levels) < 2
       /\ \E p \in {0} \cup Ctxs, o \in LevelOptionLists : Context(p, o, "hooksLogger")
    \/ \E p \in Ctxs :
            /\ ctxs[p].hasLogger => Len(ctxs) < MaxLevelCtx
            /\ ContextWithField(p, "k", "v1")
    \/ \E to \in Ctxs, from \in Ctxs :
            /\ ctxs[from].hasLogger => Len(ctxs) < MaxLevelCtx
            /\ CopyContext(to, from)
    \/ \E c \in Ctxs, l \in SetLevels : SetLevel(c, l)
    \/ \E c \in Ctxs : Log(c, ErrorLevel, <<WithError("boom")>>, <<>>)

SpecLevels == Init /\ [][NextLevels]_vars

(* ---------------- SpecOptions: the per-call options ---------------------- *)

\* getFields on every option list, once per context made: an emit through a
\* logger without callbacks changes nothing that a later call reads

ErrKeyOptionLists == {<<>>, <<WithErrorKey("err")>>}

CallOptions ==
    {WithField("k", "v1"), WithField("k", "v2"), WithFields([k \in FieldKeys |-> "v1"]),
     WithError("boom"), WithError(NilErr)}

\* the option lists of at most n options
OptionSeqs(n) == UNION {[1..m -> CallOptions] : m \in 0..n}

NextOptions ==
    \/ /\ Len(ctxs) < MaxOptCtx
       /\ \E o \in ErrKeyOptionLists : Context(0, o, "hooksLogger")
    \/ \E from \in Ctxs :
            /\ ctxs[from].hasLogger => Len(ctxs) < MaxOptCtx
            /\ CopyContext(1, from)
    \/ /\ last.op # "Emit"
       /\ \E c \in Ctxs, opts \in OptionSeqs(MaxOpts) :
            \E o \in OptionOrders(opts) : Log(c, InfoLevel, opts, o)

SpecOptions == Init /\ [][NextOptions]_vars

(* ------------- SpecConc: SetLevel concurrent with emits ------------------ *)

ConcOptionLists == {<<>>, <<WithEntryFieldCallbacks(<<"cb1">>)>>}

ConcLevels == {InfoLevel, ErrorLevel}

ConcSeverities == {InfoLevel, WarnLevel}

NextConc ==
    \/ /\ levels = <<>>
       /\ \E o \in ConcOptionLists : Context(0, o, "hooksLogger")
    \/ \E p \in Ctxs :
            /\ ctxs[p].hasLogger => Len(ctxs) < MaxConcCtx
            /\ ContextWithField(p, "k", "v1")
    \/ \E c \in Ctxs, l \in ConcLevels : SetLevel(c, l)
    \/ \E g \in Goroutines, c \in Ctxs, sev \in ConcSeverities : EmitCall(g, c, sev)
    \/ \E g \in Goroutines : ZapCheck(g)
    \/ \E g \in Goroutines : CoreCheck(g)
    \/ \E g \in Goroutines : CoreWrite(g)
    \/ \E g \in Goroutines : EmitReturn(g)

SpecConc == Init /\ [][NextConc]_vars

(* ------------- SpecHooks: callbacks and derivation chains ---------------- *)

HookOptionLists ==
    {<<WithEntryFieldCallbacks(<<"cb1">>), WithEntryFieldCallbacks(<<"cb2">>)>>,
     <<WithEntryFieldCallbacks(<<"cbPanic", "cb1">>)>>}

HookFieldMaps == {[k \in FieldKeys |-> "v1"]}

HookOptionLists2 == {<<>>, <<WithField("k", "v2")>>}

HookCalls(max) ==
    \/ /\ levels = <<>>
       /\ \E o \in HookOptionLists, w \in CoreImpls : Context(0, o, w)
    \/ \E p \in Ctxs, k \in FieldKeys :
            /\ ctxs[p].hasLogger => Len(ctxs) < max
            /\ ContextWithField(p, k, "v1")
    \/ \E p \in Ctxs, m \in HookFieldMaps :
            /\ ctxs[p].hasLogger => Len(ctxs) < max
            /\ \E o \in Orders(DOMAIN m) : ContextWithFields(p, m, o)
    \/ \E c \in Ctxs, opts \in HookOptionLists2 :
            \E o \in OptionOrders(opts) : Log(c, InfoLevel, opts, o)

NextHooks == HookCalls(MaxHookCtx)

SpecHooks == Init /\ [][NextHooks]_vars

\* the same calls, with room for the chains on which append stops copying
NextChains == HookCalls(MaxChain)

SpecChains == Init /\ [][NextChains]_vars

(* ------------------------------------------------------------------------ *)
(*                               the claims                                  *)
(* ------------------------------------------------------------------------ *)

\* the context values returned by Context
IsRoot(c) == ctxs[c].via = "Context"

\* the context values of a root's ContextWithField(s) chain, the root included
InLineage(c) == ctxs[c].lineage > 0

\* the threshold of the level controller that the context carries
Threshold(c) == levels[ctxs[c].level]

\* C1: an emit of severity S through a root context whose threshold is T
\* produces exactly one backend write if S >= T and none otherwise, for each
\* of the five severities and the five thresholds.
C1_EmitIffEnabled ==
    (last.op = "Emit" /\ IsRoot(last.ctx)) =>
        Len(last.written) = (IF last.sev >= Threshold(last.ctx) THEN 1 ELSE 0)

\* an emit at the threshold itself, through a root built at WarnLevel, wrote
\* one record
C1_Witness ==
    /\ last.op = "Emit"
    /\ IsRoot(last.ctx)
    /\ Threshold(last.ctx) = WarnLevel
    /\ last.sev = WarnLevel
    /\ Len(last.written) = 1

\* C2 (state part): every context of a root's lineage is enabled for exactly
\* the severities at or above the level of the root's controller, and right
\* after SetLevel(ctx, L) that level is L.
C2_SharedLevel ==
    /\ \A c \in Ctxs : InLineage(c) =>
            \A s \in Levels :
                SeverityEnabled(levels, ctxs[c], s) <=> s >= levels[ctxs[c].lineage]
    /\ (last.op = "SetLevel" /\ ctxs[last.ctx].level # 0) => Threshold(last.ctx) = last.arg

\* C2 (step part): only SetLevel changes the level of a controller, so the
\* level in force is the last one set, or the construction level.
C2_OnlySetLevel ==
    last'.op # "SetLevel" => \A r \in DOMAIN levels : levels'[r] = levels[r]

\* C2: SetLevel on any context of a lineage changes the threshold seen by
\* every context of that lineage, the children made before the call included:
\* <Severity>Enabled(c) is true iff Severity >= the last level set.
C2_SetLevelReachesLineage == []C2_SharedLevel /\ [][C2_OnlySetLevel]_vars

\* a child was derived, then SetLevel(root, ErrorLevel): InfoEnabled(child)
\* is false
C2_Witness ==
    /\ last.op = "SetLevel"
    /\ IsRoot(last.ctx)
    /\ last.arg = ErrorLevel
    /\ \E c \in Ctxs :
            /\ ctxs[c].via = "ContextWithField"
            /\ ctxs[c].parent = last.ctx
            /\ ~SeverityEnabled(levels, ctxs[c], InfoLevel)
            /\ SeverityEnabled(levels, ctxs[c], ErrorLevel)

\* C8: an emit at a severity below the context's current threshold applies
\* none of the per-call options: no option closure runs, no field record is
\* built, no hook runs and nothing is written.
C8_DisabledEmitIsLazy ==
    (/\ last.op = "Emit"
     /\ ctxs[last.ctx].hasLogger
     /\ last.sev < Logger_Level(levels, ctxs[last.ctx].logger)) =>
        /\ last.evaluated = 0
        /\ last.fields = <<>>
        /\ last.calls = <<>>
        /\ last.written = <<>>

\* an Info emit with two options through a context with callbacks whose
\* threshold is ErrorLevel ran no option
C8_Witness ==
    /\ last.op = "Emit"
    /\ last.sev = InfoLevel
    /\ last.nopts = 2
    /\ ctxs[last.ctx].hasLogger
    /\ ctxs[last.ctx].logger.cbs # <<>>
    /\ Logger_Level(levels, ctxs[last.ctx].logger) = ErrorLevel
    /\ last.evaluated = 0

\* the context values that carry none of the three entries
IsPlain(c) == ~ctxs[c].hasLogger /\ ctxs[c].level = 0 /\ ctxs[c].errKey = Absent

\* C9 (state part): on a context that Context never produced, no severity
\* is enabled, an emit (Panic included) returns normally without a write or
\* a hook call, ContextWithField(s) return the context they were given and
\* CopyContext(to, it) returns to.
C9_NoOpResults ==
    /\ \A c \in Ctxs : IsPlain(c) => \A s \in Levels : ~SeverityEnabled(levels, ctxs[c], s)
    /\ (last.op = "Emit" /\ IsPlain(last.ctx)) =>
            /\ last.evaluated = 0
            /\ last.calls = <<>>
            /\ last.written = <<>>
            /\ last.panic = "none"
    /\ (last.op \in {"ContextWithField", "ContextWithFields"} /\ IsPlain(last.ctx)) =>
            last.res = last.ctx
    /\ (last.op = "CopyContext" /\ IsPlain(last.arg)) => last.res = last.ctx

\* C9 (step part): such a call changes no level controller, makes no context
\* value and touches no accumulated field.
C9_NoOpSteps ==
    (\/ /\ last'.op \in {"Emit", "SetLevel", "ContextWithField", "ContextWithFields"}
        /\ IsPlain(last'.ctx)
     \/ /\ last'.op = "CopyContext"
        /\ IsPlain(last'.arg)) =>
        /\ ctxs' = ctxs
        /\ levels' = levels
        /\ arrays' = arrays

\* C9: every operation on a context that was never produced by Context is a
\* defined no-op.
C9_PlainContextNoOps == []C9_NoOpResults /\ [][C9_NoOpSteps]_vars

\* Panic with options was called on the background context while a root
\* exists: nothing was written and the call returned
C9_Witness ==
    /\ last.op = "Emit"
    /\ IsPlain(last.ctx)
    /\ last.sev = PanicLevel
    /\ last.nopts = 2
    /\ Len(levels) > 0
    /\ last.written = <<>>
    /\ last.panic = "none"

Derivations == {"ContextWithField", "ContextWithFields"}

\* the fields that the derivations leading to a context have added, in order
RECURSIVE Accumulated(_)
Accumulated(c) ==
    CASE ctxs[c].via \in Derivations -> Accumulated(ctxs[c].parent) \o ctxs[c].added
      [] ctxs[c].via = "CopyContext" -> Accumulated(ctxs[c].copyOf)
      [] OTHER -> <<>>

\* d was derived from p by one or more ContextWithField(s) calls
RECURSIVE DerivedFrom(_, _)
DerivedFrom(d, p) ==
    /\ ctxs[d].via \in Derivations
    /\ (ctxs[d].parent = p \/ DerivedFrom(ctxs[d].parent, p))

\* call-site fields to emit with
Probes == {<<>>, <<Field("k", "v2")>>}

\* what a write through logger l with call-site fields zf hands to the
\* callbacks and to the backend
Records(arrs, l, zf) ==
    LET w == Core_Write(arrs, l, zf) IN [calls |-> w.calls, written |-> w.written]

\* C3 (state part): the record that the backend gets from an emit through a
\* context carries the fields accumulated on the way to that context and the
\* call-site fields, and nothing a child added.
C3_OwnFieldsOnly ==
    (last.op = "Emit" /\ last.written # <<>>) =>
        last.written = <<Accumulated(last.ctx) \o last.fields>>

\* C3 (step part): a derivation from p, and every derivation or emit through
\* a context derived from p, leaves p as it was: the same context value, and
\* the same fields for the callbacks and the backend on a later emit.
C3_ParentUntouched ==
    \A p \in Ctxs :
        (\/ last'.op \in Derivations /\ last'.ctx = p /\ last'.res # p
         \/ last'.op \in Derivations \cup {"Emit"} /\ DerivedFrom(last'.ctx, p)) =>
            /\ ctxs'[p] = ctxs[p]
            /\ \A zf \in Probes :
                    Records(arrays', ctxs'[p].logger, zf) = Records(arrays, ctxs[p].logger, zf)

\* C3: deriving a child never mutates the parent.
C3_DeriveLeavesParent == []C3_OwnFieldsOnly /\ [][C3_ParentUntouched]_vars

\* after ContextWithField(parent, "k", v), an emit through parent, which has
\* a field of its own, gave neither the backend nor the callbacks a field k
C3_Witness ==
    /\ last.op = "Emit"
    /\ last.calls # <<>>
    /\ last.written # <<>>
    /\ ctxs[last.ctx].logger.fields # <<>>
    /\ \E c \in Ctxs :
            /\ ctxs[c].via = "ContextWithField"
            /\ ctxs[c].parent = last.ctx
            /\ ctxs[c].added[1].key = "k"
    /\ \A i \in DOMAIN last.written[1] : last.written[1][i].key # "k"
    /\ \A j \in DOMAIN last.calls :
            \A i \in DOMAIN last.calls[j].fields : last.calls[j].fields[i].key # "k"

\* C4: every callback of an emit gets the ancestor fields of the context, in
\* derivation order, followed by the call-site fields: the fields the backend
\* persists.
C4_HooksGetMergedFields ==
    (last.op = "Emit" /\ last.enabled) =>
        \A i \in DOMAIN last.calls :
            last.calls[i].fields = Accumulated(last.ctx) \o last.fields

\* the wrapping cores that keep the accumulated fields in a slice
SliceCores == {"hooksLogger", "entryFieldCallbacksCtx"}

\* C5: for a child c derived from p, whatever was derived from or emitted
\* through p, c or a sibling of c, the callbacks of an emit through c get p's
\* accumulated fields, then the field c added, then the call-site fields; no
\* append overwrites an element that another handle shows.  (Stated for the
\* cores that keep a slice.)
C5_ChildrenIndependent ==
    \A c \in Ctxs :
        (ctxs[c].via = "ContextWithField" /\ ctxs[c].logger.core \in SliceCores) =>
            \A zf \in Probes :
                \A i \in DOMAIN Records(arrays, ctxs[c].logger, zf).calls :
                    Records(arrays, ctxs[c].logger, zf).calls[i].fields
                        = Accumulated(ctxs[c].parent) \o ctxs[c].added \o zf

\* C6: with a callback that panics, an enabled emit still makes one backend
\* write, calls the remaining callbacks, and the panic does not reach the
\* caller of the emit function.
C6_CallbackPanicContained ==
    (last.op = "Emit" /\ last.enabled) =>
        /\ Len(last.written) = 1
        /\ Len(last.calls) = Len(ctxs[last.ctx].logger.cbs)
        /\ last.panic # "callback"

\* the context values that CopyContext made
Copies == {r \in Ctxs : ctxs[r].via = "CopyContext"}

\* the emits of every severity, with and without WithError, through c
Emits(c) ==
    [x \in {<<sev, opts, o>> : sev \in Levels, opts \in RootOptionLists2,
                               o \in {<<>>}} |->
        Emit(arrays, levels, c, x[1], x[2], x[3])]

\* C7 as stated: CopyContext(to, from) is to when from has no logger, and
\* otherwise every emit through the result does what the same emit through
\* from does: the enabled decision, the fields, the callbacks and the key of
\* the WithError field, whatever to is.
C7_CopyBehavesAsFrom ==
    /\ (last.op = "CopyContext" /\ ~ctxs[last.arg].hasLogger) => last.res = last.ctx
    /\ \A r \in Copies : Emits(ctxs[r]) = Emits(ctxs[ctxs[r].copyOf])

\* C7: CopyContext(to, from) is to when from has no logger, and otherwise
\* every emit through the result does what the same emit through from does
\* (the enabled decision, the fields, the callbacks), except that the key of
\* the WithError field is the error key that to carries, "error" when to
\* carries none.
C7_CopyBehavesAsFromButErrorKey ==
    /\ (last.op = "CopyContext" /\ ~ctxs[last.arg].hasLogger) => last.res = last.ctx
    /\ \A r \in Copies :
            /\ ctxs[r].errKey = ctxs[ctxs[r].parent].errKey
            /\ Emits(ctxs[r])
                    = Emits([ctxs[ctxs[r].copyOf] EXCEPT !.errKey = ctxs[r].errKey])

\* an Error emit with WithError through CopyContext(plain, from), from of a
\* root with callbacks and the error key "err", wrote the error under "error"
C7_Witness ==
    /\ last.op = "Emit"
    /\ last.ctx \in Copies
    /\ IsPlain(ctxs[last.ctx].parent)
    /\ ctxs[ctxs[last.ctx].copyOf].errKey = "err"
    /\ last.calls # <<>>
    /\ Len(last.written) = 1
    /\ \E i \in DOMAIN last.fields : last.fields[i].key = DefaultErrorKey

\* C10: SetLevel through a context of one root's ContextWithField(s) chain
\* changes, for no context of another root's chain, a severity's enabled
\* state or the records an emit writes; the other root may have been made
\* from a context of the first.
C10_RootsIndependent ==
    [][\A c \in Ctxs :
            (/\ last'.op = "SetLevel"
             /\ InLineage(last'.ctx)
             /\ InLineage(c)
             /\ ctxs[c].lineage # ctxs[last'.ctx].lineage) =>
                /\ \A s \in Levels :
                        SeverityEnabled(levels', ctxs'[c], s)
                            <=> SeverityEnabled(levels, ctxs[c], s)
                /\ \A s \in Levels, opts \in RootOptionLists2 :
                        Emit(arrays', levels', ctxs'[c], s, opts, <<>>).written
                            = Emit(arrays, levels, ctxs[c], s, opts, <<>>).written]_vars

\* SetLevel(a, ErrorLevel) through a child a of root A was called while a
\* root B = Context(a') made from a context of A's chain exists: A is at
\* ErrorLevel, B still at the level it was built with
C10_Witness ==
    /\ last.op = "SetLevel"
    /\ last.arg = ErrorLevel
    /\ InLineage(last.ctx)
    /\ ctxs[last.ctx].via = "ContextWithField"
    /\ levels[ctxs[last.ctx].lineage] = ErrorLevel
    /\ \E b \in Ctxs :
            /\ ctxs[b].via = "Context"
            /\ ctxs[b].lineage # ctxs[last.ctx].lineage
            /\ ctxs[ctxs[b].parent].lineage = ctxs[last.ctx].lineage
            /\ Threshold(b) # ErrorLevel
            /\ SeverityEnabled(levels, ctxs[b], Threshold(b))

\* C11: through c = ContextWithField(ContextWithField(ctx, a, 1), b, 2), every
\* emitted record carries a = 1 and then b = 2 right after the fields that
\* ctx accumulated, in what the backend writes and in what each callback
\* gets; no earlier field is dropped.
C11_OrderedAccumulation ==
    (/\ last.op = "Emit"
     /\ last.enabled
     /\ ctxs[last.ctx].via = "ContextWithField"
     /\ ctxs[ctxs[last.ctx].parent].via = "ContextWithField") =>
        LET p == ctxs[last.ctx].parent
            n == Len(Accumulated(ctxs[p].parent))
            own == ctxs[p].added \o ctxs[last.ctx].added
        IN /\ \A i \in DOMAIN last.written :
                    /\ Len(last.written[i]) >= n + 2
                    /\ SubSeq(last.written[i], n + 1, n + 2) = own
           /\ \A j \in DOMAIN last.calls :
                    /\ Len(last.calls[j].fields) >= n + 2
                    /\ SubSeq(last.calls[j].fields, n + 1, n + 2) = own

\* the results of CopyContext(to, from) with to a plain context
PlainCopies == {r \in Copies : IsPlain(ctxs[r].parent)}

\* C12 (state part): r = CopyContext(to, from) with to plain carries from's
\* logger but no level controller and no error key, and an emit through r
\* with WithError(err) names the error field "error".
C12_OnlyLoggerCopied ==
    /\ \A r \in PlainCopies :
            /\ ctxs[r].logger = ctxs[ctxs[r].copyOf].logger
            /\ ctxs[r].level = 0
            /\ ctxs[r].errKey = Absent
            /\ getFields(ctxs[r], <<WithError("boom")>>, <<>>)
                    = <<Field(DefaultErrorKey, "boom")>>
    /\ (last.op = "Emit" /\ last.ctx \in PlainCopies) =>
            \A i \in DOMAIN last.fields :
                last.fields[i].val = "boom" => last.fields[i].key = DefaultErrorKey

\* C12 (step part): SetLevel(r, L) changes no level, so the threshold of
\* from's lineage stays.
C12_SetLevelNoOp ==
    (last'.op = "SetLevel" /\ last'.ctx \in PlainCopies) =>
        /\ levels' = levels
        /\ \A c \in Ctxs, s \in Levels :
                SeverityEnabled(levels', ctxs'[c], s) <=> SeverityEnabled(levels, ctxs[c], s)

\* C12: CopyContext attaches only the logger; the level controller and the
\* error key are not copied.
C12_CopyAttachesOnlyLogger == []C12_OnlyLoggerCopied /\ [][C12_SetLevelNoOp]_vars

\* SetLevel(r, ErrorLevel) was called on r = CopyContext(plain, from), from
\* of a root at the default level with the error key "err": Info is still
\* enabled through r and through from
C12_Witness ==
    /\ last.op = "SetLevel"
    /\ last.arg = ErrorLevel
    /\ last.ctx \in PlainCopies
    /\ ctxs[ctxs[last.ctx].copyOf].errKey = "err"
    /\ SeverityEnabled(levels, ctxs[last.ctx], InfoLevel)
    /\ SeverityEnabled(levels, ctxs[ctxs[last.ctx].copyOf], InfoLevel)

\* c was made by, or derived from the result of, a CopyContext(to, from)
\* whose to carries a level controller that is not the one of from's logger
RECURSIVE Foreign(_)
Foreign(c) ==
    CASE ctxs[c].via = "CopyContext" ->
            /\ ctxs[ctxs[c].parent].level # 0
            /\ ctxs[ctxs[c].parent].level # ctxs[ctxs[c].copyOf].logger.lvl
      [] ctxs[c].via \in Derivations -> Foreign(ctxs[c].parent)
      [] OTHER -> FALSE

\* the contexts that carry both a logger and a level controller
Governed == {c \in Ctxs : ctxs[c].hasLogger /\ ctxs[c].level # 0}

\* C18 as stated: in every context that carries a logger and a level
\* controller, the controller is the one of the logger, and right after
\* SetLevel(ctx, L) a severity is enabled through ctx iff it is >= L.
C18_ReadYourWrites ==
    /\ \A c \in Governed : ctxs[c].level = ctxs[c].logger.lvl
    /\ (last.op = "SetLevel" /\ last.ctx \in Governed) =>
            \A s \in Levels :
                SeverityEnabled(levels, ctxs[last.ctx], s) <=> s >= last.arg

\* C18: the same, for the contexts that no CopyContext(to, from) with a to
\* that carries another root's level controller led to.
C18_ReadYourWritesUnlessForeign ==
    /\ \A c \in Governed : ~Foreign(c) => ctxs[c].level = ctxs[c].logger.lvl
    /\ (last.op = "SetLevel" /\ last.ctx \in Governed /\ ~Foreign(last.ctx)) =>
            \A s \in Levels :
                SeverityEnabled(levels, ctxs[last.ctx], s) <=> s >= last.arg

\* SetLevel(r, ErrorLevel) on r = CopyContext(to, from) with to and from of
\* the same root, built at WarnLevel: Warn is disabled through r
C18_Witness ==
    /\ last.op = "SetLevel"
    /\ last.arg = ErrorLevel
    /\ last.ctx \in Copies \cap Governed
    /\ ~Foreign(last.ctx)
    /\ ~SeverityEnabled(levels, ctxs[last.ctx], WarnLevel)
    /\ SeverityEnabled(levels, ctxs[last.ctx], ErrorLevel)

\* C13: Panic(ctx, msg, opts...) on a configured context checks the threshold
\* and merges the fields as the other severities do, hands one record to the
\* backend and to each callback, and unwinds the caller after that write:
\* it never returns normally after the write, and no emit unwinds on account
\* of its severity without having written.
C13_PanicWritesThenAborts ==
    /\ (last.op = "Emit" /\ last.sev = PanicLevel /\ ctxs[last.ctx].hasLogger) =>
            /\ last.enabled <=> PanicLevel >= Logger_Level(levels, ctxs[last.ctx].logger)
            /\ \E o \in OptionOrders(last.opts) :
                    last.fields = getFields(ctxs[last.ctx], last.opts, o)
            /\ last.written = <<Accumulated(last.ctx) \o last.fields>>
            /\ Len(last.calls) = Len(ctxs[last.ctx].logger.cbs)
            /\ last.panic = "level"
    /\ (last.op = "Emit" /\ last.panic = "level") =>
            /\ last.sev = PanicLevel
            /\ Len(last.written) = 1

\* Panic with two options through a root with a callback, its level set to
\* PanicLevel: one record written, the callback called, the caller unwound
C13_Witness ==
    /\ last.op = "Emit"
    /\ last.sev = PanicLevel
    /\ last.nopts = 2
    /\ ctxs[last.ctx].hasLogger
    /\ Logger_Level(levels, ctxs[last.ctx].logger) = PanicLevel
    /\ Len(last.calls) = 1
    /\ Len(last.written) = 1
    /\ Len(last.written[1]) = 2
    /\ last.panic = "level"

\* C14: on every write the backend gets the call-site fields only, so the
\* record it persists has each ancestor field once, from its own With chain,
\* followed by the call-site fields, while each callback gets the ancestor
\* fields followed by the call-site fields.
C14_NoDoubleCount ==
    (last.op = "Emit" /\ last.enabled) =>
        /\ \A i \in DOMAIN last.written :
                /\ Len(last.written[i]) = Len(Accumulated(last.ctx)) + Len(last.fields)
                /\ last.written[i] = ctxs[last.ctx].logger.fields \o last.fields
        /\ \A j \in DOMAIN last.calls :
                /\ Len(last.calls[j].fields) = Len(Accumulated(last.ctx)) + Len(last.fields)
                /\ \A i \in 1..Len(Accumulated(last.ctx)) :
                        last.calls[j].fields[i] = Accumulated(last.ctx)[i]

\* the callbacks of a list of context options, in the order of registration
RECURSIVE Registered(_)
Registered(opts) ==
    IF Len(opts) = 0 THEN <<>>
    ELSE (IF Head(opts).t = "WithEntryFieldCallbacks" THEN Head(opts).cbs ELSE <<>>)
            \o Registered(Tail(opts))

\* C15: the callbacks of a context are those registered at the construction
\* of its root, in registration order, for the root and for every context
\* derived from it; an emit that passes the threshold calls each of them
\* once, in that order, and an emit below the threshold calls none.
C15_CallbacksOnceInOrder ==
    /\ \A c \in Ctxs :
            /\ IsRoot(c) => \E o \in HookOptionLists : ctxs[c].logger.cbs = Registered(o)
            /\ ctxs[c].via \in Derivations =>
                    ctxs[c].logger.cbs = ctxs[ctxs[c].parent].logger.cbs
    /\ (last.op = "Emit" /\ last.found) =>
            IF last.enabled
            THEN [j \in DOMAIN last.calls |-> last.calls[j].cb] = ctxs[last.ctx].logger.cbs
            ELSE last.calls = <<>>

\* the keys that the options of a call name
OptionKeys(opts) ==
    UNION {IF opts[i].t = "WithField" THEN {opts[i].key}
           ELSE IF opts[i].t = "WithFields" THEN DOMAIN opts[i].fields
           ELSE {} : i \in DOMAIN opts}

\* whether option opt names key k, and the value it gives it
Names(opt, k) ==
    \/ opt.t = "WithField" /\ opt.key = k
    \/ opt.t = "WithFields" /\ k \in DOMAIN opt.fields

ValueIn(opt, k) == IF opt.t = "WithField" THEN opt.val ELSE opt.fields[k]

\* the last option of the list that satisfies P
LastOf(opts, P(_)) ==
    CHOOSE i \in DOMAIN opts : P(opts[i]) /\ \A j \in DOMAIN opts : P(opts[j]) => j <= i

IsWithError(opt) == opt.t = "WithError"

\* the error of the last WithError, NilErr if there is none
FinalError(opts) ==
    IF \E i \in DOMAIN opts : IsWithError(opts[i])
    THEN opts[LastOf(opts, IsWithError)].err
    ELSE NilErr

\* C16: the call-site fields of an emit have one field per key named by the
\* options, with the value of the last option naming it; the last WithError,
\* if its error is not nil, adds one more field, after them, under the error
\* key stored on the context or under "error" if the context stores none; a
\* final nil error adds none.
C16_LastOptionWins ==
    (last.op = "Emit" /\ last.enabled) =>
        LET keys == OptionKeys(last.opts)
            n == Cardinality(keys)
            e == FinalError(last.opts)
        IN /\ Len(last.fields) = n + (IF e # NilErr THEN 1 ELSE 0)
           /\ \A k \in keys :
                    LET named(opt) == Names(opt, k)
                    IN /\ Cardinality({i \in 1..n : last.fields[i].key = k}) = 1
                       /\ \E i \in 1..n :
                            last.fields[i]
                                = Field(k, ValueIn(last.opts[LastOf(last.opts, named)], k))
           /\ e # NilErr =>
                    last.fields[n + 1]
                        = Field(IF ctxs[last.ctx].errKey # Absent
                                THEN ctxs[last.ctx].errKey ELSE DefaultErrorKey, e)

\* Info(ctx, m, WithField(k, v1), WithError(boom), WithField(k, v2)) through
\* a root with the error key "err" emitted k = v2 and err = boom
C16_Witness ==
    /\ last.op = "Emit"
    /\ last.opts = <<WithField("k", "v1"), WithError("boom"), WithField("k", "v2")>>
    /\ ctxs[last.ctx].errKey = "err"
    /\ last.fields = <<Field("k", "v2"), Field("err", "boom")>>
    /\ last.written = <<last.fields>>

\* the level cell that the emit call of goroutine g reads
CellOf(g) == ctxs[inflight[g].ctx].logger.lvl

\* C17 (state part): every level that an emit call has loaded is the
\* construction level or a level passed to SetLevel, the call has made no or
\* one backend write, and it has made one only if its severity is at or above
\* a level it loaded, which was the current one at that load.
C17_ValidReads ==
    \A g \in Goroutines :
        LET e == inflight[g]
        IN /\ \A i \in DOMAIN e.reads : e.reads[i] \in {DefaultLevel} \cup ConcLevels
           /\ e.writes \in {0, 1}
           /\ e.writes = 1 =>
                    \E i \in DOMAIN e.reads : e.sev >= e.reads[i]

\* C17 (step part): a level cell changes only in a SetLevel call, to that
\* call's level, and a load returns the level that the cell holds.
C17_AtomicSteps ==
    /\ \A cell \in DOMAIN levels :
            levels'[cell] # levels[cell] =>
                /\ last'.op = "SetLevel"
                /\ levels'[cell] = last'.arg
    /\ \A g \in Goroutines :
            Len(inflight'[g].reads) > Len(inflight[g].reads) =>
                inflight'[g].reads[Len(inflight'[g].reads)]
                    = levels[ctxs[inflight'[g].ctx].logger.lvl]

\* C17: with SetLevel calls concurrent to the emits of one lineage, no load
\* of the level sees a value that was never set, and an emit writes at most
\* once, and only at a severity enabled by a level current during the call.
C17_ConcurrentLevel == []C17_ValidReads /\ [][C17_AtomicSteps]_vars

\* one goroutine passed its three checks and wrote before SetLevel raised the
\* level above its severity; the other passed the check of the emit function
\* before that SetLevel and failed zap's check after it
C17_Witness ==
    \E g \in Goroutines, h \in Goroutines :
        /\ inflight[g].writes = 1
        /\ inflight[g].sev < levels[CellOf(g)]
        /\ inflight[h].pc = "returned"
        /\ inflight[h].writes = 0
        /\ inflight[h].reads = <<InfoLevel, ErrorLevel>>
        /\ CellOf(h) = CellOf(g)
        /\ inflight[h].ctx # inflight[g].ctx

====
